---- MODULE Spec2Model ----
(***************************************************************************)
(* Model of constuneval's clone-on-write container UnevalCow<'a, B>        *)
(* (src/src/uneval_cow.rs): its two variants, to_mut / into_owned, the     *)
(* read-only trait implementations, the Debug renderer and the string      *)
(* concatenation operators.                                                *)
(*                                                                         *)
(* A borrowed reference &'a B is an address into Store, the data owned by  *)
(* somebody else; owned data is held by value, with its capacity.          *)
(***************************************************************************)
EXTENDS Integers, Sequences, FiniteSets, TLC

VARIABLES cow,   \* the container: Borrowed(&B), Owned(B::Owned), or moved out
          op,    \* the operation that produced this state
          arg,   \* the argument that operation was called with
          ret,   \* what the operation returned
          work,  \* clones / copies of the container's data / allocations it made
          file   \* what the file at to_file's target holds

vars == <<cow, op, arg, ret, work, file>>

\* Longest text, in bytes, that string concatenation is driven to.
MaxLen == 3

None == [k |-> "none"]

(***************************************************************************)
(* Data: values of the borrowed shapes B and of their owned counterparts.  *)
(***************************************************************************)
Str(s) == [k |-> "str", v |-> s]
U64(n) == [k |-> "u64", v |-> n]
Slice(e) == [k |-> "slice", v |-> e]
BoxSlice(e) == [k |-> "box", v |-> e]
String(s, c) == [k |-> "String", v |-> s, cap |-> c]
Vec(e, c) == [k |-> "Vec", v |-> e, cap |-> c]

\* The data the borrowed references point to, by address.
Store ==
  << Str(<<>>), Str(<<"a">>), Str(<<"a">>), Str(<<"b", "\"">>),
     U64(1), U64(27), Slice(<<>>), Slice(<<1, 2, 3>>), Slice(<<1, 2, 3>>),
     BoxSlice(<<1, 2>>), Str(<<"a", "b">>), Slice(<<1, 2>>) >>

Addr == DOMAIN Store

\* Owned data handed to UnevalCow::Owned by the caller.
OwnedInputs ==
  { String(<<>>, 0), String(<<"a">>, 1), String(<<"b", "\"">>, 2), String(<<"a", "b">>, 8),
    U64(1), U64(27), Vec(<<>>, 0), Vec(<<1, 2, 3>>, 3), Vec(<<1, 2>>, 4),
    BoxSlice(<<1, 2>>) }

\* <B as ToOwned>::Owned -> B : the type parameter an owned value belongs to.
ShapeOfOwned(o) ==
  CASE o.k = "String" -> "str"
    [] o.k = "Vec" -> "slice"
    [] OTHER -> o.k

Max(a, b) == IF a >= b THEN a ELSE b

\* Borrow<B> for B::Owned: the borrowed view of owned data (capacity is not part of it).
BorrowOwned(o) ==
  CASE o.k = "String" -> Str(o.v)
    [] o.k = "Vec" -> Slice(o.v)
    [] OTHER -> o

\* ToOwned::to_owned: a fresh owned copy of the whole of b, allocated to fit.
ToOwned(b) ==
  CASE b.k = "str" -> String(b.v, Len(b.v))
    [] b.k = "slice" -> Vec(b.v, Len(b.v))
    [] OTHER -> b

(***************************************************************************)
(* What the wrapped data does when read: its Debug and Display text, its   *)
(* order, its equality and the bytes it feeds a Hasher.                    *)
(***************************************************************************)
Digit == <<"0", "1", "2", "3", "4", "5", "6", "7", "8", "9">>

RECURSIVE Decimal(_)
Decimal(n) == IF n < 10 THEN Digit[n + 1] ELSE Decimal(n \div 10) \o Digit[(n % 10) + 1]

\* <str as Debug>: the characters a string literal must escape.
EscapeDebug(ch) ==
  CASE ch = "\"" -> "\\\""
    [] ch = "\\" -> "\\\\"
    [] OTHER -> ch

RECURSIVE EscapeAll(_)
EscapeAll(s) == IF s = <<>> THEN "" ELSE EscapeDebug(Head(s)) \o EscapeAll(Tail(s))

RECURSIVE Concat(_)
Concat(s) == IF s = <<>> THEN "" ELSE Head(s) \o Concat(Tail(s))

RECURSIVE DebugList(_)
DebugList(e) ==
  IF e = <<>> THEN ""
  ELSE IF Len(e) = 1 THEN Decimal(e[1])
  ELSE Decimal(Head(e)) \o ", " \o DebugList(Tail(e))

\* {:?} of the wrapped data, borrowed or owned (&T, Box<T>, String and Vec<T>
\* all delegate to the data they hold).
Debug(x) ==
  CASE x.k \in {"str", "String"} -> "\"" \o EscapeAll(x.v) \o "\""
    [] x.k = "u64" -> Decimal(x.v)
    [] OTHER -> "[" \o DebugList(x.v) \o "]"

\* {} of the wrapped data (text and integers only).
Display(x) == IF x.k \in {"str", "String"} THEN Concat(x.v) ELSE Decimal(x.v)

CodePoint(ch) ==
  CASE ch = "\"" -> 34
    [] ch = "\\" -> 92
    [] ch = "a" -> 97
    [] ch = "b" -> 98

Unit(x, k) == IF k = "str" THEN CodePoint(x) ELSE x

RECURSIVE LexCmp(_, _, _)
LexCmp(s, t, k) ==
  IF s = <<>> THEN (IF t = <<>> THEN "Equal" ELSE "Less")
  ELSE IF t = <<>> THEN "Greater"
  ELSE IF Unit(Head(s), k) < Unit(Head(t), k) THEN "Less"
  ELSE IF Unit(Head(s), k) > Unit(Head(t), k) THEN "Greater"
  ELSE LexCmp(Tail(s), Tail(t), k)

\* Ord::cmp on B: integers by value, text and slices lexicographically.
OrdCmp(x, y) ==
  IF x.k = "u64"
    THEN (IF x.v < y.v THEN "Less" ELSE IF x.v > y.v THEN "Greater" ELSE "Equal")
    ELSE LexCmp(x.v, y.v, x.k)

\* PartialEq::eq on B.
DataEq(x, y) == x.v = y.v

\* Hash::hash on B: the writes the data makes to the Hasher.
HashWrites(x) ==
  CASE x.k = "str" -> [i \in 1..Len(x.v) |-> CodePoint(x.v[i])] \o <<255>>
    [] x.k = "u64" -> <<x.v>>
    [] OTHER -> <<Len(x.v)>> \o x.v

(***************************************************************************)
(* The container.                                                          *)
(***************************************************************************)
Borrowed(a) == [B |-> Store[a].k, tag |-> "Borrowed", ref |-> a]
Owned(o) == [B |-> ShapeOfOwned(o), tag |-> "Owned", val |-> o]
Moved == [tag |-> "Moved"]

Shapes == {"str", "u64", "slice", "box"}

Containers == {Borrowed(a) : a \in Addr} \cup {Owned(o) : o \in OwnedInputs}

NoWork == [clones |-> 0, copies |-> 0, allocs |-> 0]

\* No file exists at the target.
NoFile == [k |-> "absent"]

\* deref that hands out the owned value itself, without borrow().
deref_unborrowed(c) == IF c.tag = "Borrowed" THEN Store[c.ref] ELSE c.val

\* impl Deref: &B, the referenced data or the borrowed view of the owned data.
deref(c) == IF c.tag = "Borrowed" THEN Store[c.ref] ELSE BorrowOwned(c.val)

\* impl Borrow<B>: &**self
borrow(c) == deref(c)

\* impl AsRef<T>: self, coerced through Deref
as_ref(c) == deref(c)

\* impl Ord: Ord::cmp(&**self, &**other)
cmp(a, b) == OrdCmp(deref(a), deref(b))

\* eq as #[derive(PartialEq)] would give it: the variants must match too.
eq_derived(a, b) == a.tag = b.tag /\ DataEq(deref(a), deref(b))

\* impl PartialEq: PartialEq::eq(&**self, &**other)
eq(a, b) == DataEq(deref(a), deref(b))

\* impl PartialOrd: PartialOrd::partial_cmp(&**self, &**other)
partial_cmp(a, b) == [some |-> OrdCmp(deref(a), deref(b))]

\* impl Hash: Hash::hash(&**self, state)
hash(c) == HashWrites(deref(c))

\* Debug with the Owned arm spelled as an Owned constructor.
debug_fmt_owned_spelling(c) ==
  IF c.tag = "Borrowed"
    THEN "UnevalCow::Borrowed( &" \o Debug(Store[c.ref]) \o " )"
    ELSE "UnevalCow::Owned( " \o Debug(c.val) \o " )"

\* impl fmt::Debug
debug_fmt(c) ==
  IF c.tag = "Borrowed"
    THEN "UnevalCow::Borrowed( &" \o Debug(Store[c.ref]) \o " )"
    ELSE IF c.B = "str"
      THEN "UnevalCow::Borrowed( " \o Debug(c.val) \o " )"
      ELSE "UnevalCow::Borrowed( &" \o Debug(c.val) \o " )"

\* impl fmt::Display
display_fmt(c) == IF c.tag = "Borrowed" THEN Display(Store[c.ref]) ELSE Display(c.val)

\* impl Default: Owned(<B as ToOwned>::Owned::default()).
default(B) ==
  CASE B = "str" -> Owned(String(<<>>, 0))
    [] B = "slice" -> Owned(Vec(<<>>, 0))
    [] B = "u64" -> Owned(U64(0))
    [] OTHER -> Owned(BoxSlice(<<>>))

\* clone that copies the data whatever the variant.
clone_deep(c) ==
  [cow |-> Owned(ToOwned(deref(c))), work |-> [clones |-> 1, copies |-> 1, allocs |-> 1]]

\* impl Clone: a borrowed container copies the reference, an owned one its data.
clone(c) ==
  IF c.tag = "Borrowed"
    THEN [cow |-> Borrowed(c.ref), work |-> NoWork]
    ELSE [cow |-> Owned(ToOwned(BorrowOwned(c.val))),
          work |-> [clones |-> 1, copies |-> 1, allocs |-> 1]]

\* to_mut that clones whatever the variant.
to_mut_always_clones(c) ==
  LET o == ToOwned(deref(c))
  IN  [cow |-> Owned(o), ret |-> o, work |-> [clones |-> 1, copies |-> 1, allocs |-> 1]]

\* UnevalCow::to_mut: the container afterwards, the owned data the returned
\* &mut points to, and the clones made.
to_mut(c) ==
  IF c.tag = "Borrowed"
    THEN LET o == ToOwned(Store[c.ref])
         IN  [cow |-> Owned(o), ret |-> o,
              work |-> [clones |-> 1, copies |-> 1, allocs |-> 1]]
    ELSE [cow |-> c, ret |-> c.val, work |-> NoWork]

\* into_owned that allocates fresh owned data instead of cloning the borrowed data.
into_owned_without_clone(c) ==
  IF c.tag = "Borrowed"
    THEN [ret |-> default(c.B).val, work |-> NoWork]
    ELSE [ret |-> c.val, work |-> NoWork]

\* UnevalCow::into_owned
into_owned(c) ==
  IF c.tag = "Borrowed"
    THEN [ret |-> ToOwned(Store[c.ref]),
          work |-> [clones |-> 1, copies |-> 1, allocs |-> 1]]
    ELSE [ret |-> c.val, work |-> NoWork]

\* String::push_str: appends in place, growing the buffer when it does not fit
\* (amortised: at least double, at least 8 bytes).
push_str(o, s) ==
  LET need == Len(o.v) + Len(s)
  IN  IF need <= o.cap
        THEN [val |-> String(o.v \o s, o.cap), allocs |-> 0]
        ELSE [val |-> String(o.v \o s, Max(Max(2 * o.cap, need), 8)), allocs |-> 1]

\* String::with_capacity
with_capacity(n) == String(<<>>, n)

is_empty(c) == Len(deref(c).v) = 0

\* append_to that allocates for a borrowed left operand but never copies it in.
append_to_drops_lhs(c, text) ==
  LET borrowed == c.tag = "Borrowed"
      c1 == IF borrowed
              THEN Owned(with_capacity(Len(Store[c.ref].v) + Len(text)))
              ELSE c
      m == to_mut(c1)
      p == push_str(m.ret, text)
  IN  [cow |-> Owned(p.val),
       work |-> [clones |-> m.work.clones,
                 copies |-> m.work.copies,
                 allocs |-> (IF borrowed THEN 1 ELSE 0) + m.work.allocs + p.allocs]]

\* append_to with the new String sized for the left operand alone.
append_to_undersized(c, text) ==
  LET borrowed == c.tag = "Borrowed"
      c1 == IF borrowed
              THEN Owned(push_str(with_capacity(Len(Store[c.ref].v)), Store[c.ref].v).val)
              ELSE c
      m == to_mut(c1)
      p == push_str(m.ret, text)
  IN  [cow |-> Owned(p.val),
       work |-> [clones |-> m.work.clones,
                 copies |-> (IF borrowed THEN 1 ELSE 0) + m.work.copies,
                 allocs |-> (IF borrowed THEN 1 ELSE 0) + m.work.allocs + p.allocs]]

\* The tail both add_assign bodies share: a borrowed left operand is copied
\* into a String sized for both operands, then the right text is pushed
\* through to_mut().
append_to(c, text) ==
  LET borrowed == c.tag = "Borrowed"
      c1 == IF borrowed
              THEN Owned(push_str(with_capacity(Len(Store[c.ref].v) + Len(text)),
                                  Store[c.ref].v).val)
              ELSE c
      m == to_mut(c1)
      p == push_str(m.ret, text)
  IN  [cow |-> Owned(p.val),
       work |-> [clones |-> m.work.clones,
                 copies |-> (IF borrowed THEN 1 ELSE 0) + m.work.copies,
                 allocs |-> (IF borrowed THEN 1 ELSE 0) + m.work.allocs + p.allocs]]

\* add_assign without the empty-self shortcut: it always appends.
add_assign_str_always_copies(c, rhs) ==
  IF Len(Store[rhs].v) # 0
    THEN append_to(c, Store[rhs].v)
    ELSE [cow |-> c, work |-> NoWork]

\* impl AddAssign<&'a str> for UnevalCow<'a, str>; rhs is the address of the text.
add_assign_str(c, rhs) ==
  IF is_empty(c)
    THEN [cow |-> Borrowed(rhs), work |-> NoWork]
    ELSE IF Len(Store[rhs].v) # 0
      THEN append_to(c, Store[rhs].v)
      ELSE [cow |-> c, work |-> NoWork]

\* add_assign with the two emptiness tests on the wrong operands.
add_assign_cow_swapped(c, rhs) ==
  IF is_empty(rhs)
    THEN [cow |-> rhs, work |-> NoWork]
    ELSE IF ~is_empty(c)
      THEN append_to(c, deref(rhs).v)
      ELSE [cow |-> c, work |-> NoWork]

\* impl AddAssign<UnevalCow<'a, str>> for UnevalCow<'a, str>
add_assign_cow(c, rhs) ==
  IF is_empty(c)
    THEN [cow |-> rhs, work |-> NoWork]
    ELSE IF ~is_empty(rhs)
      THEN append_to(c, deref(rhs).v)
      ELSE [cow |-> c, work |-> NoWork]

\* impl Add<&'a str>: self += rhs; self
add_str(c, rhs) == add_assign_str(c, rhs)

\* impl Add<UnevalCow<'a, str>>: self += rhs; self
add_cow(c, rhs) == add_assign_cow(c, rhs)

Copied == [clones |-> 0, copies |-> 1, allocs |-> 1]

\* From<UnevalCow<[T]>> for Box<[T]>, From<UnevalCow<str>> for Box<str>
from_cow_box(c) ==
  IF c.tag = "Borrowed"
    THEN [ret |-> [ptr |-> "Box", data |-> Store[c.ref]], work |-> Copied]
    ELSE [ret |-> [ptr |-> "Box", data |-> BorrowOwned(c.val)], work |-> NoWork]

\* From<UnevalCow<B>> for Arc<B>
from_cow_arc(c) ==
  IF c.tag = "Borrowed"
    THEN [ret |-> [ptr |-> "Arc", data |-> Store[c.ref]], work |-> Copied]
    ELSE [ret |-> [ptr |-> "Arc", data |-> BorrowOwned(c.val)], work |-> Copied]

\* From<UnevalCow<B>> for Rc<B>
from_cow_rc(c) ==
  IF c.tag = "Borrowed"
    THEN [ret |-> [ptr |-> "Rc", data |-> Store[c.ref]], work |-> Copied]
    ELSE [ret |-> [ptr |-> "Rc", data |-> BorrowOwned(c.val)], work |-> Copied]

Live == cow.tag # "Moved"

\* The containers another operand of the same type B can be.
Others == {c \in Containers : c.B = cow.B}

Init ==
  /\ cow \in Containers \cup {default(B) : B \in Shapes}
  /\ op = "new"
  /\ arg = None
  /\ ret = None
  /\ work = NoWork
  /\ file = NoFile

(***************************************************************************)
(* Construction, once the previous container has been moved out.           *)
(***************************************************************************)
NewBorrowed ==
  /\ ~Live
  /\ \E a \in Addr : cow' = Borrowed(a)
  /\ op' = "new" /\ arg' = None /\ ret' = None /\ work' = NoWork
  /\ UNCHANGED file

NewOwned ==
  /\ ~Live
  /\ \E o \in OwnedInputs : cow' = Owned(o)
  /\ op' = "new" /\ arg' = None /\ ret' = None /\ work' = NoWork
  /\ UNCHANGED file

NewDefault ==
  /\ ~Live
  /\ \E B \in Shapes : cow' = default(B)
  /\ op' = "new" /\ arg' = None /\ ret' = None /\ work' = NoWork
  /\ UNCHANGED file

(***************************************************************************)
(* Operations that take &mut self.                                         *)
(***************************************************************************)
ToMut ==
  /\ Live
  /\ LET r == to_mut(cow)
     IN  /\ cow' = r.cow
         /\ ret' = r.ret
         /\ work' = r.work
  /\ op' = "to_mut"
  /\ arg' = None
  /\ UNCHANGED file

AddAssignStr ==
  /\ Live /\ cow.B = "str"
  /\ \E a \in Addr :
       /\ Store[a].k = "str"
       /\ Len(deref(cow).v) + Len(Store[a].v) <= MaxLen
       /\ LET r == add_assign_str(cow, a)
          IN  cow' = r.cow /\ work' = r.work
       /\ arg' = [ref |-> a]
  /\ op' = "add_assign_str"
  /\ ret' = None
  /\ UNCHANGED file

AddAssignCow ==
  /\ Live /\ cow.B = "str"
  /\ \E b \in Others :
       /\ Len(deref(cow).v) + Len(deref(b).v) <= MaxLen
       /\ LET r == add_assign_cow(cow, b)
          IN  cow' = r.cow /\ work' = r.work
       /\ arg' = b
  /\ op' = "add_assign_cow"
  /\ ret' = None
  /\ UNCHANGED file

(***************************************************************************)
(* Operations that take self by value: the container is moved out.         *)
(***************************************************************************)
AddStr ==
  /\ Live /\ cow.B = "str"
  /\ \E a \in Addr :
       /\ Store[a].k = "str"
       /\ Len(deref(cow).v) + Len(Store[a].v) <= MaxLen
       /\ LET r == add_str(cow, a)
          IN  ret' = r.cow /\ work' = r.work
       /\ arg' = [ref |-> a]
  /\ cow' = Moved
  /\ op' = "add_str"
  /\ UNCHANGED file

AddCow ==
  /\ Live /\ cow.B = "str"
  /\ \E b \in Others :
       /\ Len(deref(cow).v) + Len(deref(b).v) <= MaxLen
       /\ LET r == add_cow(cow, b)
          IN  ret' = r.cow /\ work' = r.work
       /\ arg' = b
  /\ cow' = Moved
  /\ op' = "add_cow"
  /\ UNCHANGED file

IntoOwned ==
  /\ Live
  /\ LET r == into_owned(cow)
     IN  /\ ret' = r.ret
         /\ work' = r.work
  /\ cow' = Moved
  /\ op' = "into_owned"
  /\ arg' = None
  /\ UNCHANGED file

FromCowBox ==
  /\ Live /\ cow.B \in {"str", "slice"}
  /\ LET r == from_cow_box(cow)
     IN  ret' = r.ret /\ work' = r.work
  /\ cow' = Moved
  /\ op' = "from_cow_box"
  /\ arg' = None
  /\ UNCHANGED file

FromCowArc ==
  /\ Live /\ cow.B \in {"str", "slice"}
  /\ LET r == from_cow_arc(cow)
     IN  ret' = r.ret /\ work' = r.work
  /\ cow' = Moved
  /\ op' = "from_cow_arc"
  /\ arg' = None
  /\ UNCHANGED file

FromCowRc ==
  /\ Live /\ cow.B \in {"str", "slice"}
  /\ LET r == from_cow_rc(cow)
     IN  ret' = r.ret /\ work' = r.work
  /\ cow' = Moved
  /\ op' = "from_cow_rc"
  /\ arg' = None
  /\ UNCHANGED file

(***************************************************************************)
(* Operations that take &self.                                             *)
(***************************************************************************)
Deref ==
  /\ Live
  /\ ret' = deref(cow)
  /\ op' = "deref" /\ arg' = None /\ work' = NoWork
  /\ UNCHANGED cow
  /\ UNCHANGED file

Borrow ==
  /\ Live
  /\ ret' = borrow(cow)
  /\ op' = "borrow" /\ arg' = None /\ work' = NoWork
  /\ UNCHANGED cow
  /\ UNCHANGED file

AsRef ==
  /\ Live
  /\ ret' = as_ref(cow)
  /\ op' = "as_ref" /\ arg' = None /\ work' = NoWork
  /\ UNCHANGED cow
  /\ UNCHANGED file

Eq ==
  /\ Live
  /\ \E b \in Others : ret' = eq(cow, b) /\ arg' = b
  /\ op' = "eq" /\ work' = NoWork
  /\ UNCHANGED cow
  /\ UNCHANGED file

Cmp ==
  /\ Live
  /\ \E b \in Others : ret' = cmp(cow, b) /\ arg' = b
  /\ op' = "cmp" /\ work' = NoWork
  /\ UNCHANGED cow
  /\ UNCHANGED file

PartialCmp ==
  /\ Live
  /\ \E b \in Others : ret' = partial_cmp(cow, b) /\ arg' = b
  /\ op' = "partial_cmp" /\ work' = NoWork
  /\ UNCHANGED cow
  /\ UNCHANGED file

Hash ==
  /\ Live
  /\ ret' = hash(cow)
  /\ op' = "hash" /\ arg' = None /\ work' = NoWork
  /\ UNCHANGED cow
  /\ UNCHANGED file

DebugFmt ==
  /\ Live
  /\ ret' = debug_fmt(cow)
  /\ op' = "debug_fmt" /\ arg' = None /\ work' = NoWork
  /\ UNCHANGED cow
  /\ UNCHANGED file

DisplayFmt ==
  /\ Live /\ cow.B \in {"str", "u64"}
  /\ ret' = display_fmt(cow)
  /\ op' = "display_fmt" /\ arg' = None /\ work' = NoWork
  /\ UNCHANGED cow
  /\ UNCHANGED file

Clone ==
  /\ Live
  /\ LET r == clone(cow)
     IN  ret' = r.cow /\ work' = r.work
  /\ op' = "clone" /\ arg' = None
  /\ UNCHANGED cow
  /\ UNCHANGED file

Next ==
  \/ NewBorrowed \/ NewOwned \/ NewDefault
  \/ ToMut \/ AddAssignStr \/ AddAssignCow
  \/ AddStr \/ AddCow \/ IntoOwned \/ FromCowBox \/ FromCowArc \/ FromCowRc
  \/ Deref \/ Borrow \/ AsRef \/ Eq \/ Cmp \/ PartialCmp \/ Hash \/ DebugFmt \/ DisplayFmt \/ Clone

Spec == Init /\ [][Next]_vars

(***************************************************************************)
(* Nested containers: UnevalCow<'static, [UnevalCow<'static, [F]>]>, the   *)
(* table of the FftDomain example, and the emission functions of lib.rs.   *)
(***************************************************************************)
\* Most rows an owned table is built with.
MaxRows == 2

\* The inner containers: UnevalCow<[u64]> in either variant.
SliceCows == {c \in Containers : c.B = "slice"}

\* The tables the borrowed outer references point to, by address.
TableStore ==
  << <<>>,
     <<Borrowed(8)>>,
     <<Borrowed(12), Borrowed(7)>>,
     <<Borrowed(8), Owned(Vec(<<1, 2>>, 4))>>,
     <<Owned(Vec(<<1, 2, 3>>, 3)), Owned(Vec(<<>>, 0))>>,
     <<Borrowed(9), Borrowed(12)>>,
     <<Borrowed(8), Borrowed(8)>> >>

VecCow(e) == [k |-> "VecCow", v |-> e, cap |-> Len(e)]

BorrowedTable(t) == [B |-> "table", tag |-> "Borrowed", tref |-> t]
OwnedTable(e) == [B |-> "table", tag |-> "Owned", val |-> VecCow(e)]

RowSeqs == UNION {[1..n -> SliceCows] : n \in 0..MaxRows}

TableContainers ==
  {BorrowedTable(t) : t \in DOMAIN TableStore} \cup {OwnedTable(e) : e \in RowSeqs}

\* The rows of a table container, whichever variant holds them.
rows(c) == IF c.tag = "Borrowed" THEN TableStore[c.tref] ELSE c.val.v

RECURSIVE DebugRows(_)
DebugRows(e) ==
  IF e = <<>> THEN ""
  ELSE IF Len(e) = 1 THEN debug_fmt(e[1])
  ELSE debug_fmt(Head(e)) \o ", " \o DebugRows(Tail(e))

\* {:?} of [UnevalCow<[u64]>] / Vec<UnevalCow<[u64]>>: each element through
\* its own Debug.
DebugTable(e) == "[" \o DebugRows(e) \o "]"

\* Debug of the outer container with only the Borrowed arm forced to the
\* Borrowed spelling.
debug_fmt_table_owned_spelling(c) ==
  IF c.tag = "Borrowed"
    THEN "UnevalCow::Borrowed( &" \o DebugTable(TableStore[c.tref]) \o " )"
    ELSE "UnevalCow::Owned( " \o DebugTable(c.val.v) \o " )"

\* impl fmt::Debug, for B = [UnevalCow<[u64]>] (B is not str).
debug_fmt_table(c) ==
  IF c.tag = "Borrowed"
    THEN "UnevalCow::Borrowed( &" \o DebugTable(TableStore[c.tref]) \o " )"
    ELSE "UnevalCow::Borrowed( &" \o DebugTable(c.val.v) \o " )"

\* #[derive(Debug)] pub struct FftDomain<F> { pub some_table: ... }
FftDomain(c) == [k |-> "FftDomain", some_table |-> c]

IsStruct(v) == "some_table" \in DOMAIN v

DebugCow(c) == IF c.B = "table" THEN debug_fmt_table(c) ELSE debug_fmt(c)

\* {:?} of a value handed to the emission functions.
DebugValue(v) ==
  IF IsStruct(v)
    THEN "FftDomain { some_table: " \o DebugCow(v.some_table) \o " }"
    ELSE DebugCow(v)

\* {:#?} of such a value: a derived Debug spreads its fields over indented
\* lines; UnevalCow's Debug writes through format_args!("..{:?}..") and so
\* renders as it does for {:?}.
PrettyValue(v) ==
  IF IsStruct(v)
    THEN "FftDomain {\n    some_table: " \o DebugCow(v.some_table) \o ",\n}"
    ELSE DebugCow(v)

ShapeName(B) ==
  CASE B = "str" -> "str"
    [] B = "u64" -> "u64"
    [] B = "slice" -> "[u64]"
    [] B = "box" -> "alloc::boxed::Box<[u64]>"
    [] OTHER -> "[constuneval::uneval_cow::UnevalCow<[u64]>]"

\* std::any::type_name::<T>()
type_name(v) ==
  IF IsStruct(v)
    THEN "ex1::FftDomain<u64>"
    ELSE "constuneval::uneval_cow::UnevalCow<" \o ShapeName(v.B) \o ">"

\* Option::unwrap_or
unwrap_or(o, d) == IF "some" \in DOMAIN o THEN o.some ELSE d

\* to_string that formats the value with {:?}.
to_string_plain(name, value, ty) ==
  "const " \o name \o ": " \o unwrap_or(ty, type_name(value)) \o " = "
    \o DebugValue(value) \o ";"

\* pub fn to_string
to_string(name, value, ty) ==
  "const " \o name \o ": " \o unwrap_or(ty, type_name(value)) \o " = "
    \o PrettyValue(value) \o ";"

Written(text) == [k |-> "file", bytes |-> text]
\* A file that holds some proper prefix of text.
Partial(text) == [k |-> "partial", of |-> text]

Ok == [k |-> "Ok"]
Err(what) == [k |-> "Err", error |-> what]

\* The ways the file system can answer: both calls succeed, File::create
\* fails, or write_all fails after the file was created.
IoOutcomes == {"ok", "create_fails", "write_fails"}

\* pub fn to_file: the file afterwards and the Result returned.
to_file(f, name, value, ty, io) ==
  CASE io = "create_fails" -> [file |-> f, ret |-> Err("create")]
    [] io = "write_fails" -> [file |-> Partial(to_string(name, value, ty)), ret |-> Err("write")]
    [] OTHER -> [file |-> Written(to_string(name, value, ty)), ret |-> Ok]

Names == {"X", "FFT_TABLE"}
TypeAnnotations == {None, [some |-> "FftDomain<'static, i32>"]}

\* The values a live container can be emitted as: itself, or as the field of
\* an FftDomain when it is a table.
ValuesOf(c) == IF c.B = "table" THEN {c, FftDomain(c)} ELSE {c}

EmitInit ==
  /\ cow \in Containers \cup TableContainers
  /\ op = "new"
  /\ arg = None
  /\ ret = None
  /\ work = NoWork
  /\ file = NoFile

\* format!("{:?}", value)
DebugFmtValue ==
  /\ \E v \in ValuesOf(cow) : ret' = DebugValue(v) /\ arg' = [value |-> v]
  /\ op' = "debug_fmt_value" /\ work' = NoWork
  /\ UNCHANGED <<cow, file>>

ToStringCall ==
  /\ \E name \in Names, v \in ValuesOf(cow), ty \in TypeAnnotations :
       /\ ret' = to_string(name, v, ty)
       /\ arg' = [name |-> name, value |-> v, ty |-> ty]
  /\ op' = "to_string" /\ work' = NoWork
  /\ UNCHANGED <<cow, file>>

ToFile ==
  /\ \E name \in Names, v \in ValuesOf(cow), ty \in TypeAnnotations, io \in IoOutcomes :
       /\ LET r == to_file(file, name, v, ty, io)
          IN  file' = r.file /\ ret' = r.ret
       /\ arg' = [name |-> name, value |-> v, ty |-> ty]
  /\ op' = "to_file" /\ work' = NoWork
  /\ UNCHANGED cow

EmitNext == DebugFmtValue \/ ToStringCall \/ ToFile

EmitSpec == EmitInit /\ [][EmitNext]_vars

(***************************************************************************)
(* Claims.                                                                 *)
(***************************************************************************)
\* The right operand's text, for a &str argument or a container argument.
RhsText(x) == IF "ref" \in DOMAIN x THEN Store[x.ref].v ELSE x.val.v

InPlaceAppend == {"add_assign_str", "add_assign_cow"}
AnyAppend == {"add_assign_str", "add_assign_cow", "add_str", "add_cow"}

\* C1 (as claimed): once the container is Owned, no step turns it into a
\* Borrowed one in place.
C1_OwnedNeverBorrowedAgain ==
  [][cow.tag = "Owned" => cow'.tag # "Borrowed"]_vars

\* C1 (amended): an Owned container turns Borrowed in place only through +=
\* applied while its contents are empty, which replaces it by the right
\* operand; to_mut, += on non-empty contents and every read-only operation
\* leave an Owned container Owned.
C1_OwnedToBorrowedOnlyWhenEmpty ==
  [][(cow.tag = "Owned" /\ cow'.tag = "Borrowed")
       => /\ op' \in InPlaceAppend
          /\ is_empty(cow)
          /\ cow' = Borrowed(arg'.ref)]_vars

\* An Owned, non-empty container was appended to with a non-empty Borrowed
\* operand and is still Owned.
C1_Witness ==
  /\ op = "add_assign_cow"
  /\ cow.tag = "Owned"
  /\ work.copies = 0
  /\ arg.tag = "Borrowed"
  /\ ~is_empty(arg)

\* C2: Debug of a str container is UnevalCow::Borrowed( "s" ), the quoted
\* literal without a leading &, whether the container is Borrowed or Owned.
C2_StrRendersQuotedLiteral ==
  (op = "debug_fmt" /\ cow.B = "str")
    => ret = "UnevalCow::Borrowed( " \o Debug(deref(cow)) \o " )"

\* C3: Debug text does not depend on the variant: every container of the
\* same shape holding equal data renders to the same text.
C3_RenderVariantIndependent ==
  op = "debug_fmt"
    => \A c \in Containers :
         (c.B = cow.B /\ deref(c) = deref(cow)) => debug_fmt(c) = ret

\* C4: to_mut on Borrowed clones the referenced data exactly once, leaves the
\* container Owned with equal contents and returns that owned data; to_mut on
\* Owned clones nothing and changes nothing; so a to_mut that follows a to_mut
\* never clones.
C4_ToMutClonesAtMostOnce ==
  [][op' = "to_mut"
       => /\ cow.tag = "Borrowed"
               => /\ work'.clones = 1
                  /\ cow'.tag = "Owned"
                  /\ BorrowOwned(cow'.val) = Store[cow.ref]
                  /\ ret' = cow'.val
          /\ cow.tag = "Owned"
               => /\ work'.clones = 0
                  /\ cow' = cow
                  /\ ret' = cow.val
          /\ op = "to_mut" => work'.clones = 0]_vars

\* to_mut has just cloned borrowed, non-empty data.
C4_Witness ==
  /\ op = "to_mut"
  /\ work.clones = 1
  /\ cow.tag = "Owned"
  /\ cow.B = "slice"
  /\ cow.val.v = <<1, 2, 3>>

\* C5: deref of Borrowed(&v) is v, and deref of Owned(clone of v) is v.
C5_DerefYieldsData ==
  op = "deref"
    => \A a \in Addr :
         /\ cow = Borrowed(a) => ret = Store[a]
         /\ cow = Owned(ToOwned(Store[a])) => ret = Store[a]

\* An Owned container holding a clone of stored text was dereferenced.
C5_Witness ==
  /\ op = "deref"
  /\ cow.tag = "Owned"
  /\ cow = Owned(ToOwned(Store[4]))
  /\ ret = Store[4]

\* C6: ==, cmp, partial_cmp and hash of containers are those of the
\* dereferenced data, whatever the variants: equal data compares equal,
\* orders Equal and hashes identically.
C6_CompareByDataOnly ==
  /\ op = "eq" => ret = (deref(cow) = deref(arg))
  /\ op = "cmp"
       => /\ ret = OrdCmp(deref(cow), deref(arg))
          /\ deref(cow) = deref(arg) => ret = "Equal"
  /\ op = "partial_cmp" => ret = [some |-> OrdCmp(deref(cow), deref(arg))]
  /\ op = "hash"
       => /\ ret = HashWrites(deref(cow))
          /\ \A c \in Containers :
               (c.B = cow.B /\ deref(c) = deref(cow)) => hash(c) = ret

\* A Borrowed and an Owned container holding the same data compared equal.
C6_Witness ==
  /\ op = "eq"
  /\ cow.tag = "Borrowed"
  /\ arg.tag = "Owned"
  /\ ret = TRUE

\* C7: += / + on a container whose contents are empty takes over the right
\* operand: a &str operand gives Borrowed of exactly that reference, a
\* container operand gives that container unchanged; nothing is cloned,
\* copied or allocated.
C7_EmptyTakesOverOperand ==
  [][(op' \in AnyAppend /\ is_empty(cow))
       => /\ work' = NoWork
          /\ op' = "add_assign_str" => cow' = Borrowed(arg'.ref)
          /\ op' = "add_str" => ret' = Borrowed(arg'.ref)
          /\ op' = "add_assign_cow" => cow' = arg'
          /\ op' = "add_cow" => ret' = arg']_vars

\* An empty container took over a non-empty &str by reference.
C7_Witness ==
  /\ op = "add_assign_str"
  /\ cow = Borrowed(arg.ref)
  /\ ~is_empty(cow)
  /\ work = NoWork

\* C8: appending non-empty content to a non-empty Borrowed container copies
\* the borrowed text once into one allocation that fits both operands and
\* appends; the container ends Owned and the inner to_mut clones nothing.
C8_BorrowedAppendCopiesOnce ==
  [][(op' \in AnyAppend /\ cow.tag = "Borrowed" /\ ~is_empty(cow)
        /\ RhsText(arg') # <<>>)
       => LET out == IF op' \in InPlaceAppend THEN cow' ELSE ret'
          IN  /\ out.tag = "Owned"
              /\ out.val.v = Store[cow.ref].v \o RhsText(arg')
              /\ out.val.cap >= Len(Store[cow.ref].v) + Len(RhsText(arg'))
              /\ work'.copies = 1
              /\ work'.clones = 0
              /\ work'.allocs = 1]_vars

\* A non-empty Borrowed container was appended to and is now Owned.
C8_Witness ==
  /\ op = "add_assign_str"
  /\ cow.tag = "Owned"
  /\ work.copies = 1
  /\ cow.val.v = <<"a", "b", "\"">>

\* C9: for integer, slice and boxed-slice containers Debug is
\* UnevalCow::Borrowed( &<inner> ) with the data's whole Debug text, in
\* either variant; the Owned spelling never appears.
C9_NonTextRendersAsReference ==
  (op = "debug_fmt" /\ cow.B # "str")
    => /\ ret = "UnevalCow::Borrowed( &" \o Debug(deref(cow)) \o " )"
       /\ (cow.B = "u64" /\ deref(cow).v = 1) => ret = "UnevalCow::Borrowed( &1 )"
       /\ (cow.B = "u64" /\ deref(cow).v = 27) => ret = "UnevalCow::Borrowed( &27 )"
       /\ (cow.B # "u64" /\ deref(cow).v = <<1, 2, 3>>)
            => ret = "UnevalCow::Borrowed( &[1, 2, 3] )"
       /\ (cow.B # "u64" /\ deref(cow).v = <<>>) => ret = "UnevalCow::Borrowed( &[] )"

\* An Owned Vec [1, 2, 3] was rendered with the Borrowed spelling.
C9_Witness ==
  /\ op = "debug_fmt"
  /\ cow.tag = "Owned"
  /\ cow.B = "slice"
  /\ ret = "UnevalCow::Borrowed( &[1, 2, 3] )"

\* C10: into_owned and the conversions into Box, Rc and Arc yield the
\* container's data, from a Borrowed and from an Owned container alike.
C10_ExtractionPreservesContents ==
  [][/\ op' = "into_owned" => BorrowOwned(ret') = deref(cow)
     /\ op' \in {"from_cow_box", "from_cow_rc", "from_cow_arc"}
          => ret'.data = deref(cow)]_vars

\* into_owned has cloned borrowed text out of the store.
C10_Witness ==
  /\ op = "into_owned"
  /\ work.clones = 1
  /\ ret = String(<<"b", "\"">>, 2)

ReadOnly ==
  {"deref", "borrow", "as_ref", "eq", "cmp", "partial_cmp", "hash",
   "debug_fmt", "display_fmt", "clone"}

\* C11: every read-only operation leaves the container as it was, and on a
\* Borrowed container clones and copies nothing (its clone is the same
\* reference); a Borrowed container turns Owned in place only through to_mut
\* or +=.
C11_ReadOnlyKeepsVariant ==
  [][/\ op' \in ReadOnly
          => /\ cow' = cow
             /\ cow.tag = "Borrowed" => (work'.clones = 0 /\ work'.copies = 0)
     /\ (op' = "clone" /\ cow.tag = "Borrowed") => ret' = cow
     /\ (op' \in {"deref", "borrow", "as_ref"}) => ret' = deref(cow)
     /\ (cow.tag = "Borrowed" /\ cow'.tag = "Owned")
          => op' \in {"to_mut"} \cup InPlaceAppend]_vars

\* A Borrowed container was cloned: the clone is the same reference and no
\* data was copied.
C11_Witness ==
  /\ op = "clone"
  /\ cow.tag = "Borrowed"
  /\ ret = cow
  /\ ~is_empty(cow)
  /\ work = NoWork

\* The <TYPE> of the last emission: the annotation given, else the type name.
TypeText == IF arg.ty = None THEN type_name(arg.value) ELSE arg.ty.some

\* C12 (as claimed): to_string returns const <NAME>: <TYPE> = <RENDERED>;
\* with <RENDERED> the value's Debug ({:?}) text, and to_file writes exactly
\* that.
C12_ConstTextWithDebugValue ==
  LET text == "const " \o arg.name \o ": " \o TypeText \o " = "
                \o DebugValue(arg.value) \o ";"
  IN  /\ op = "to_string" => ret = text
      /\ (op = "to_file" /\ ret = Ok) => file = Written(text)

\* C12 (amended): <RENDERED> is the value's pretty ({:#?}) Debug text: the
\* plain Debug text for a UnevalCow, the fields on indented lines for an
\* FftDomain; to_file, when it returns Ok, has written exactly that text.
C12_ConstTextWithPrettyValue ==
  LET rendered == IF IsStruct(arg.value)
                    THEN "FftDomain {\n    some_table: "
                           \o debug_fmt_table(arg.value.some_table) \o ",\n}"
                    ELSE DebugValue(arg.value)
      text == "const " \o arg.name \o ": " \o TypeText \o " = " \o rendered \o ";"
  IN  /\ op = "to_string"
           => /\ ret = text
              /\ (arg.name = "X" /\ arg.value = Borrowed(5) /\ arg.ty = None)
                   => ret = "const X: constuneval::uneval_cow::UnevalCow<u64> = UnevalCow::Borrowed( &1 );"
              /\ (arg.name = "FFT_TABLE" /\ arg.value = FftDomain(BorrowedTable(2))
                    /\ arg.ty # None)
                   => ret = "const FFT_TABLE: FftDomain<'static, i32> = FftDomain {\n    some_table: UnevalCow::Borrowed( &[UnevalCow::Borrowed( &[1, 2, 3] )] ),\n};"
      /\ (op = "to_file" /\ ret = Ok) => file = Written(text)

\* An FftDomain holding an owned table was written to the file.
C12_Witness ==
  /\ op = "to_file"
  /\ ret = Ok
  /\ IsStruct(arg.value)
  /\ arg.value.some_table.tag = "Owned"
  /\ arg.ty # None
  /\ file = Written(to_string(arg.name, arg.value, arg.ty))

\* The data of a table container: the numbers of each row.
RowData(c) == [i \in DOMAIN rows(c) |-> deref(rows(c)[i]).v]

AllBorrowed(c) ==
  c.tag = "Borrowed" /\ \A i \in DOMAIN rows(c) : rows(c)[i].tag = "Borrowed"

RECURSIVE BorrowedRows(_)
BorrowedRows(d) ==
  IF d = <<>> THEN ""
  ELSE "UnevalCow::Borrowed( &" \o Debug(Slice(Head(d))) \o " )"
         \o (IF Len(d) = 1 THEN "" ELSE ", " \o BorrowedRows(Tail(d)))

\* C13: a table of slice containers renders with the Borrowed( &[..] )
\* spelling at both levels whatever the variants, and to the same text as
\* the same data with every level Borrowed.
C13_NestedRendersAsBorrowed ==
  (op = "debug_fmt_value" /\ arg.value = cow /\ cow.B = "table")
    => /\ ret = "UnevalCow::Borrowed( &[" \o BorrowedRows(RowData(cow)) \o "] )"
       /\ \A d \in TableContainers :
            (AllBorrowed(d) /\ RowData(d) = RowData(cow)) => debug_fmt_table(d) = ret

\* An owned table mixing an Owned and a Borrowed row was rendered, and the
\* store holds the same data borrowed at every level.
C13_Witness ==
  /\ op = "debug_fmt_value"
  /\ cow = OwnedTable(<<Owned(Vec(<<1, 2, 3>>, 3)), Borrowed(12)>>)
  /\ arg.value = cow
  /\ AllBorrowed(BorrowedTable(6))
  /\ RowData(BorrowedTable(6)) = RowData(cow)
  /\ ret = "UnevalCow::Borrowed( &[UnevalCow::Borrowed( &[1, 2, 3] ), UnevalCow::Borrowed( &[1, 2] )] )"

\* C14: after a += b, and for the result of a + b, the text is the old text
\* of a followed by the text of b, for every variant and emptiness of the
\* operands; with b empty and a non-empty, a is unchanged.
C14_AppendConcatenates ==
  [][op' \in AnyAppend
       => LET out == IF op' \in InPlaceAppend THEN cow' ELSE ret'
          IN  /\ out.tag \in {"Borrowed", "Owned"}
              /\ deref(out) = Str(deref(cow).v \o RhsText(arg'))
              /\ (RhsText(arg') = <<>> /\ ~is_empty(cow)) => out = cow]_vars

\* a + b with a non-empty and b an Owned non-empty container gave the joined text.
C14_Witness ==
  /\ op = "add_cow"
  /\ arg.tag = "Owned"
  /\ arg.val.v = <<"b", "\"">>
  /\ ret.tag = "Owned"
  /\ ret.val.v = <<"a", "b", "\"">>
====
